---- MODULE Spec2Model ----
(***************************************************************************)
(* A model of tec_util/core.py: the pattern-based entity selector          *)
(* (get_variables / get_zones), the revolution transform (revolve_dataset) *)
(* and the differencing engine (difference_datasets).                      *)
(*                                                                         *)
(* Names and glob patterns of the selector are sequences of one-character  *)
(* strings, so that matching is computed character by character.  The      *)
(* variable names of the revolution transform are strings (concatenated    *)
(* with \o as the code concatenates them with +).                          *)
(***************************************************************************)
EXTENDS Integers, Sequences, FiniteSets, TLC

VARIABLES
    \* ---- entity selector ----
    catalog,      \* ds: the names of the dataset's variables (or zones), in index order
    patterns,     \* the patterns argument of the last call
    result,       \* what the last call returned or raised
    lib_empty,    \* what the library's ds.variables([]) does in this installation
    \* ---- revolve_dataset ----
    rv_pc,        \* where the call is: "idle", "load", "build", "zones", "write", "done", "failed"
    rv_args,      \* the arguments radial_coord, vector_vars, planes as passed
    datafile_in,  \* the dataset in the input file: variable names and zones
    vars_in,      \* vars_in
    vector_vars,  \* vector_vars once merged with the radial coordinate's mapping
    data_out,     \* data_out: the variables and zones created so far
    rv_err,       \* the exception that ended the call, or "none"
    datafile_out, \* the dataset written to datafile_out, or NotWritten
    \* ---- difference_datasets ----
    df_pc,        \* where the call is: "idle", "load", "delta", "save", "done", "failed"
    df_args,      \* the arguments var_patterns, zone_patterns, nskip
    data_new,     \* data_new: variables, zones and values; the deltas are appended to it
    data_old,     \* data_old
    var_new,      \* var_new, var_old, zone_new, zone_old: the selected entities
    var_old,
    zone_new,
    zone_old,
    initial_num_vars, \* data_new.num_variables before the deltas are added
    df_i,         \* how many variable pairs the delta loop has gone through
    df_err,       \* the exception that ended the call, or "none"
    df_out,       \* what write_dataset was given: variables=, zones=, or nothing yet
    \* ---- the API operations and the frames of the active page ----
    page,         \* the frames on the active page
    page_before,  \* the frames that were on the page when the operation was called
    frames_made,  \* how many frames page.add_frame() has created so far
    api_pc,       \* "idle", "enter", "body", "exit"
    api_op,       \* the operation being run (or run last)
    api_input,    \* its input: the dataset in the file, the patterns, the step that fails
    frames_held,  \* the frames of the temp_frame() contexts entered, innermost last
    api_exc,      \* the exception in flight, or "none"
    api_result,   \* what the last operation returned or raised
    api_calls     \* how many operations have been called

selVars == <<catalog, patterns, result, lib_empty>>
rvVars == <<rv_pc, rv_args, datafile_in, vars_in, vector_vars, data_out, rv_err,
            datafile_out>>
dfVars == <<df_pc, df_args, data_new, data_old, var_new, var_old, zone_new, zone_old,
            initial_num_vars, df_i, df_err, df_out>>
apiVars == <<page, page_before, frames_made, api_pc, api_op, api_input, frames_held,
             api_exc, api_result, api_calls>>
vars == <<catalog, patterns, result, lib_empty, rv_pc, rv_args, datafile_in, vars_in,
          vector_vars, data_out, rv_err, datafile_out, df_pc, df_args, data_new,
          data_old, var_new, var_old, zone_new, zone_old, initial_num_vars, df_i,
          df_err, df_out, page, page_before, frames_made, api_pc, api_op, api_input,
          frames_held, api_exc, api_result, api_calls>>

\* ------------------------------------------------------------------ bounds
\* Longest dataset catalog the selector is run on.
MaxCatalog == 3
\* Longest pattern list handed to the selector.
MaxPatterns == 2

\* ------------------------------------------------------------------ helpers
Range(s) == { s[i] : i \in 1..Len(s) }

SeqsUpTo(S, n) == UNION { [1..k -> S] : k \in 0..n }

\* ================================================================== selector
\* Entity names and glob patterns the selector is exercised with.
EntityNames == { <<"a">>, <<"b">>, <<"a", "b">> }
GlobPatterns == { <<"*">>, <<"a", "*">>, <<"?">>, <<"b">> }

\* patterns=None, a bare string, or a list of strings
NoPatterns == [kind |-> "none", ps |-> <<>>]
StrPattern(p) == [kind |-> "str", ps |-> <<p>>]
ListPatterns(ps) == [kind |-> "list", ps |-> ps]

\* glob matching of one name against one pattern, as ds.variables(p) / ds.zones(p)
\* filter the catalog: '*' matches any run of characters, '?' exactly one.
RECURSIVE fnmatch(_, _)
fnmatch(name, pat) ==
    IF pat = <<>> THEN name = <<>>
    ELSE IF Head(pat) = "*"
         THEN fnmatch(name, Tail(pat)) \/ (name # <<>> /\ fnmatch(Tail(name), pat))
         ELSE /\ name # <<>>
              /\ (Head(pat) = "?" \/ Head(pat) = Head(name))
              /\ fnmatch(Tail(name), Tail(pat))

\* The entity at (0-based) index i of a catalog.
Entity(ds, i) == [name |-> ds[i + 1], index |-> i]

\* ds.variables(pattern) for pattern None or a string: the catalog's entities, in
\* index order, that the pattern lets through.
RECURSIVE ds_iter(_, _, _)
ds_iter(ds, pattern, i) ==
    IF i >= Len(ds) THEN <<>>
    ELSE (IF pattern.kind = "none" \/ fnmatch(ds[i + 1], pattern.ps[1])
          THEN <<Entity(ds, i)>> ELSE <<>>) \o ds_iter(ds, pattern, i + 1)

\* matches[v.name] = v on an insertion-ordered dict: a new key is appended, an
\* existing key keeps its place and takes the new value.
dict_set_moving(matches, v) ==
    SelectSeq(matches, LAMBDA e : e.name # v.name) \o <<v>>

dict_set(matches, v) ==
    IF \E i \in 1..Len(matches) : matches[i].name = v.name
    THEN [i \in 1..Len(matches) |->
            IF matches[i].name = v.name THEN v ELSE matches[i]]
    ELSE Append(matches, v)

\* for v in ds.variables(p): matches[v.name] = v
RECURSIVE dict_update(_, _)
dict_update(matches, found) ==
    IF found = <<>> THEN matches
    ELSE dict_update(dict_set(matches, Head(found)), Tail(found))

\* for p in patterns: for v in ds.variables(p): matches[v.name] = v
RECURSIVE scan_patterns(_, _, _)
scan_patterns(ds, ps, matches) ==
    IF ps = <<>> THEN matches
    ELSE scan_patterns(ds, Tail(ps),
                       dict_update(matches, ds_iter(ds, StrPattern(Head(ps)), 0)))

\* The assert that ends get_variables / get_zones.  Its message joins the
\* patterns, which raises TypeError when patterns is None.
assert_result_always(pats, found) == [err |-> "none", value |-> found]

assert_result(pats, found) ==
    IF found # <<>> THEN [err |-> "none", value |-> found]
    ELSE IF pats.kind = "none" THEN [err |-> "TypeError", value |-> <<>>]
    ELSE [err |-> "AssertionError", value |-> <<>>]

\* `not patterns or isinstance(patterns, str)`: None, a string, and the empty list
takes_direct_branch(pats) == pats.kind \in {"none", "str"} \/ pats.ps = <<>>

\* get_variables(ds, patterns).  mode is the library's treatment of an empty
\* list given as the pattern ("all": like None; "none": nothing matches;
\* "raise": a TypeError from the matching itself).
get_variables(ds, pats, mode) ==
    IF takes_direct_branch(pats)
    THEN IF pats.kind = "list"
         THEN CASE mode = "all" -> assert_result(pats, ds_iter(ds, NoPatterns, 0))
                [] mode = "none" -> assert_result(pats, <<>>)
                [] OTHER -> [err |-> "TypeError", value |-> <<>>]
         ELSE assert_result(pats, ds_iter(ds, pats, 0))
    ELSE assert_result(pats, scan_patterns(ds, pats.ps, <<>>))

\* get_zones(ds, patterns): the same code over ds.zones
get_zones(ds, pats, mode) ==
    IF takes_direct_branch(pats)
    THEN IF pats.kind = "list"
         THEN CASE mode = "all" -> assert_result(pats, ds_iter(ds, NoPatterns, 0))
                [] mode = "none" -> assert_result(pats, <<>>)
                [] OTHER -> [err |-> "TypeError", value |-> <<>>]
         ELSE assert_result(pats, ds_iter(ds, pats, 0))
    ELSE assert_result(pats, scan_patterns(ds, pats.ps, <<>>))

\* ---- the selector as a state machine: a dataset, and calls on it ----
NotWritten == [vars |-> <<>>, zones |-> <<>>, written |-> FALSE]
EmptyDataset == [vars |-> <<>>, zones |-> <<>>]
NoArgs == [radial_coord |-> [kind |-> "none"], vector_vars |-> [kind |-> "none"],
           planes |-> 0]

RevolveIdle ==
    /\ rv_pc = "idle"
    /\ rv_args = NoArgs
    /\ datafile_in = EmptyDataset
    /\ vars_in = <<>>
    /\ vector_vars = <<>>
    /\ data_out = EmptyDataset
    /\ rv_err = "none"
    /\ datafile_out = NotWritten

NoDataset == [vars |-> <<>>, zones |-> <<>>, values |-> <<>>]
NothingSaved == [variables |-> <<>>, zones |-> <<>>, written |-> FALSE]

DiffIdle ==
    /\ df_pc = "idle"
    /\ df_args = [var_patterns |-> NoPatterns, zone_patterns |-> NoPatterns, nskip |-> 0]
    /\ data_new = NoDataset
    /\ data_old = NoDataset
    /\ var_new = <<>>
    /\ var_old = <<>>
    /\ zone_new = <<>>
    /\ zone_old = <<>>
    /\ initial_num_vars = 0
    /\ df_i = 0
    /\ df_err = "none"
    /\ df_out = NothingSaved

\* No API operation is being run; the page holds the layout's own frame.
NoInput == [dataset |-> NoDataset, variable_patterns |-> NoPatterns,
            zone_patterns |-> NoPatterns, fails |-> "none"]
NoResult == [op |-> "none", err |-> "none", value |-> <<>>]

ApiIdle ==
    /\ page = {0}
    /\ page_before = {0}
    /\ frames_made = 0
    /\ api_pc = "idle"
    /\ api_op = "none"
    /\ api_input = NoInput
    /\ frames_held = <<>>
    /\ api_exc = "none"
    /\ api_result = NoResult
    /\ api_calls = 0

InitSelect ==
    /\ catalog \in SeqsUpTo(EntityNames, MaxCatalog)
    /\ lib_empty \in {"all", "none", "raise"}
    /\ patterns = NoPatterns
    /\ result = [fn |-> "none", err |-> "none", value |-> <<>>]
    /\ RevolveIdle
    /\ DiffIdle
    /\ ApiIdle

Returned(fn, r) == [fn |-> fn, err |-> r.err, value |-> r.value]

\* get_variables(ds) / get_variables(ds, None)
CallVariablesNone ==
    /\ patterns' = NoPatterns
    /\ result' = Returned("get_variables", get_variables(catalog, NoPatterns, lib_empty))
    /\ UNCHANGED <<catalog, lib_empty>>
    /\ UNCHANGED rvVars
    /\ UNCHANGED dfVars
    /\ UNCHANGED apiVars

\* get_variables(ds, "pattern")
CallVariablesStr ==
    /\ \E p \in GlobPatterns :
         /\ patterns' = StrPattern(p)
         /\ result' = Returned("get_variables",
                               get_variables(catalog, StrPattern(p), lib_empty))
    /\ UNCHANGED <<catalog, lib_empty>>
    /\ UNCHANGED rvVars
    /\ UNCHANGED dfVars
    /\ UNCHANGED apiVars

\* get_variables(ds, [])
CallVariablesEmptyList ==
    /\ patterns' = ListPatterns(<<>>)
    /\ result' = Returned("get_variables",
                          get_variables(catalog, ListPatterns(<<>>), lib_empty))
    /\ UNCHANGED <<catalog, lib_empty>>
    /\ UNCHANGED rvVars
    /\ UNCHANGED dfVars
    /\ UNCHANGED apiVars

\* get_variables(ds, P + [p]) after a call with the list P
CallVariablesLonger ==
    /\ patterns.kind = "list"
    /\ result.fn = "get_variables"
    /\ Len(patterns.ps) < MaxPatterns
    /\ \E p \in GlobPatterns :
         /\ patterns' = ListPatterns(Append(patterns.ps, p))
         /\ result' = Returned("get_variables",
                               get_variables(catalog, patterns', lib_empty))
    /\ UNCHANGED <<catalog, lib_empty>>
    /\ UNCHANGED rvVars
    /\ UNCHANGED dfVars
    /\ UNCHANGED apiVars

\* get_zones(ds, []), the catalog being the dataset's zones
CallZonesEmptyList ==
    /\ patterns' = ListPatterns(<<>>)
    /\ result' = Returned("get_zones", get_zones(catalog, ListPatterns(<<>>), lib_empty))
    /\ UNCHANGED <<catalog, lib_empty>>
    /\ UNCHANGED rvVars
    /\ UNCHANGED dfVars
    /\ UNCHANGED apiVars

\* get_zones(ds, P + [p]) after a call with the list P
CallZonesLonger ==
    /\ patterns.kind = "list"
    /\ result.fn = "get_zones"
    /\ Len(patterns.ps) < MaxPatterns
    /\ \E p \in GlobPatterns :
         /\ patterns' = ListPatterns(Append(patterns.ps, p))
         /\ result' = Returned("get_zones", get_zones(catalog, patterns', lib_empty))
    /\ UNCHANGED <<catalog, lib_empty>>
    /\ UNCHANGED rvVars
    /\ UNCHANGED dfVars
    /\ UNCHANGED apiVars

\* get_zones(ds) and get_zones(ds, "pattern")
CallZonesDirect ==
    /\ \E pats \in {NoPatterns} \cup { StrPattern(p) : p \in GlobPatterns } :
         /\ patterns' = pats
         /\ result' = Returned("get_zones", get_zones(catalog, pats, lib_empty))
    /\ UNCHANGED <<catalog, lib_empty>>
    /\ UNCHANGED rvVars
    /\ UNCHANGED dfVars
    /\ UNCHANGED apiVars

NextSelect ==
    \/ CallVariablesNone
    \/ CallVariablesStr
    \/ CallVariablesEmptyList
    \/ CallVariablesLonger
    \/ CallZonesEmptyList
    \/ CallZonesLonger
    \/ CallZonesDirect

SpecSelect == InitSelect /\ [][NextSelect]_vars

\* ------------------------------------------------------------ selector claims
\* p matches some entry of the catalog
Matched(name, ps) == \E k \in 1..Len(ps) : fnmatch(name, ps[k])

\* The first pattern (scanning left to right) that matches a name, and the first
\* catalog position holding the name.
FirstPattern(name, ps) ==
    CHOOSE k \in 1..Len(ps) :
        fnmatch(name, ps[k]) /\ \A m \in 1..(k - 1) : ~fnmatch(name, ps[m])
FirstPosition(name) ==
    CHOOSE i \in 1..Len(catalog) :
        catalog[i] = name /\ \A m \in 1..(i - 1) : catalog[m] # name
SeenBefore(n1, n2, ps) ==
    \/ FirstPattern(n1, ps) < FirstPattern(n2, ps)
    \/ FirstPattern(n1, ps) = FirstPattern(n2, ps) /\ FirstPosition(n1) < FirstPosition(n2)

ListCallReturned == patterns.kind = "list" /\ result.fn # "none" /\ result.err = "none"

\* C6: a call of get_variables / get_zones with a list of patterns returns, for
\* every matched name, exactly one entity of the catalog with that name; the
\* entities are in first-seen order (patterns left to right, each pattern's
\* matches in catalog order), so a later pattern that matches a captured entity
\* does not move it; and with a non-empty list nothing unmatched is returned.
C6_FirstSeenOrder ==
    ListCallReturned =>
        LET out == result.value
            ps == patterns.ps
        IN /\ \A n \in Range(catalog) :
                Matched(n, ps) => Cardinality({ i \in 1..Len(out) : out[i].name = n }) = 1
           /\ \A i \in 1..Len(out) :
                /\ out[i].index \in 0..(Len(catalog) - 1)
                /\ catalog[out[i].index + 1] = out[i].name
           /\ ps # <<>> => \A i \in 1..Len(out) : Matched(out[i].name, ps)
           /\ \A i, j \in 1..Len(out) :
                (i < j /\ Matched(out[i].name, ps) /\ Matched(out[j].name, ps))
                    => SeenBefore(out[i].name, out[j].name, ps)

\* C6 witness: a two-pattern call whose second pattern matches an entity the
\* first one captured and also captures a new one, which comes after it.
C6_Witness ==
    /\ ListCallReturned
    /\ Len(patterns.ps) = 2
    /\ Len(result.value) >= 2
    /\ \E i \in 1..Len(result.value) :
         /\ fnmatch(result.value[i].name, patterns.ps[1])
         /\ fnmatch(result.value[i].name, patterns.ps[2])
         /\ \E j \in (i + 1)..Len(result.value) :
              ~fnmatch(result.value[j].name, patterns.ps[1])

NoMatch(pats) == \A n \in Range(catalog) : ~Matched(n, pats.ps)

ExtendsPrefix ==
    /\ patterns.kind = "list" /\ patterns'.kind = "list"
    /\ result.fn # "none" /\ result'.fn = result.fn
    /\ Len(patterns'.ps) = Len(patterns.ps) + 1
    /\ SubSeq(patterns'.ps, 1, Len(patterns.ps)) = patterns.ps
    /\ result.err = "none" /\ result'.err = "none"

\* every entity of old is in new at the same or an earlier position
SameOrEarlier(old, new) ==
    \A i \in 1..Len(old) : \E j \in 1..i : j <= Len(new) /\ new[j] = old[i]

MaxVars == 3
\* Largest number of data planes asked for (the acceptance test's apart).
MaxPlanes == 2

\* ---- dicts: sequences of <<key, value>> in insertion order, keys unique ----
Keys(d) == { d[i][1] : i \in 1..Len(d) }
Get(d, k) == d[CHOOSE i \in 1..Len(d) : d[i][1] = k][2]
Put(d, k, val) ==
    IF k \in Keys(d)
    THEN [i \in 1..Len(d) |-> IF d[i][1] = k THEN <<k, val>> ELSE d[i]]
    ELSE Append(d, <<k, val>>)

\* { **a, **b }: a's entries, overridden and then extended by b's
RECURSIVE dict_merge(_, _)
dict_merge(a, b) ==
    IF b = <<>> THEN a ELSE dict_merge(Put(a, Head(b)[1], Head(b)[2]), Tail(b))

\* { v: (v+'_cos', v+'_sin') for v in vector_vars }
RECURSIVE dict_from_list(_)
dict_from_list(names) ==
    IF names = <<>> THEN <<>>
    ELSE dict_merge(<<<<Head(names), <<Head(names) \o "_cos", Head(names) \o "_sin">>>>>>,
                    dict_from_list(Tail(names)))

\* the arguments as the caller passes them
RadialNone == [kind |-> "none", name |-> "", map |-> <<>>]
RadialStr(n) == [kind |-> "str", name |-> n, map |-> <<>>]
RadialDict(d) == [kind |-> "dict", name |-> "", map |-> d]
VectorNone == [kind |-> "none", names |-> <<>>, map |-> <<>>]
VectorList(l) == [kind |-> "list", names |-> l, map |-> <<>>]
VectorDict(d) == [kind |-> "dict", names |-> <<>>, map |-> d]

\* lines 412-416: a list becomes a dict, nothing becomes the empty dict
normalize_vector_vars(vv) ==
    IF vv.kind = "list" /\ vv.names # <<>> THEN dict_from_list(vv.names)
    ELSE IF vv.kind = "dict" THEN vv.map
    ELSE <<>>

\* `not radial_coord`: None, or an empty dict
radial_is_omitted(rc) == rc.kind = "none" \/ (rc.kind = "dict" /\ rc.map = <<>>)

IsUnique(names) == \A i, j \in 1..Len(names) : names[i] = names[j] => i = j

\* Lines 424-450: everything between loading the input and creating the output.
\* The outcome is the exception raised (or "none") and the merged vector_vars.
check_inputs(names, rc0, vv0) ==
    LET vv == normalize_vector_vars(vv0)
        omitted == radial_is_omitted(rc0)
        named == IF omitted THEN RadialStr(names[2]) ELSE rc0
        default_zname == named.kind = "str"
        radial == IF default_zname THEN <<<<named.name, <<named.name, "z">>>>>>
                  ELSE named.map
        merged == dict_merge(radial, vv)
        rname == radial[1][1]
    IN  IF ~IsUnique(names) THEN [err |-> "AssertionError", vector_vars |-> <<>>]
        ELSE IF omitted /\ Len(names) < 2 THEN [err |-> "IndexError", vector_vars |-> <<>>]
        ELSE IF rname \notin Range(names)
             THEN [err |-> "AssertionError", vector_vars |-> <<>>]
        ELSE IF default_zname /\ "z" \in Range(names)
             THEN [err |-> "AssertionError", vector_vars |-> <<>>]
        ELSE IF \E v \in Keys(merged) : v \notin Range(names)
             THEN [err |-> "AssertionError", vector_vars |-> <<>>]
        ELSE [err |-> "none", vector_vars |-> merged]

\* Lines 458-461: the components of v that data_out gets as new variables.
new_components_unchecked(v, names, vmap) == <<Get(vmap, v)[1], Get(vmap, v)[2]>>

new_components(v, names, vmap) ==
    SelectSeq(<<Get(vmap, v)[1], Get(vmap, v)[2]>>, LAMBDA c : c \notin Range(names))

\* Lines 454-461: the variable list of data_out.
RECURSIVE add_variables(_, _, _)
add_variables(rest, names, vmap) ==
    IF rest = <<>> THEN <<>>
    ELSE <<Head(rest)>>
         \o (IF Head(rest) \in Keys(vmap) THEN new_components(Head(rest), names, vmap)
             ELSE <<>>)
         \o add_variables(Tail(rest), names, vmap)

\* ---- zones and values ----
\* zin.rank: the number of axes holding more than one point
rank(zin) == Cardinality({ a \in 1..3 : zin.dimensions[a] > 1 })

RECURSIVE Prod(_)
Prod(dims) == IF dims = <<>> THEN 1 ELSE Head(dims) * Prod(Tail(dims))

\* the shape handed to add_ordered_zone: [*zin.dimensions[0:zin.rank], planes]
zone_shape_all_axes(zin, planes) == zin.dimensions \o <<planes>>

zone_shape_planes_first(zin, planes) == <<planes>> \o SubSeq(zin.dimensions, 1, rank(zin))

zone_shape(zin, planes) == SubSeq(zin.dimensions, 1, rank(zin)) \o <<planes>>

\* zone.dimensions of an ordered zone: always (i, j, k)
reported_dimensions(shape) == [a \in 1..3 |-> IF a <= Len(shape) THEN shape[a] ELSE 1]

\* A value is <<variable, point, factor, plane>>: the input value of the variable at
\* the point, times cos (factor "cos") or sin ("sin") of the plane's angle, or
\* itself ("id").  theta_0 = 0, so cos is 1 and sin is 0 at plane 0.
Zero == <<"", 0, "zero", 0>>
InputValue(v, p) == <<v, p, "id", 0>>
np_multiply(x, factor, k) ==
    IF k = 0 THEN (IF factor = "cos" THEN x ELSE Zero)
    ELSE <<x[1], x[2], factor, k>>

\* zin.values(v)
zin_values(v, npt) == [p \in 1..npt |-> InputValue(v, p)]

\* zout.values(name): the first variable of data_out with that name
VarIndex(names, n) ==
    CHOOSE i \in 1..Len(names) : names[i] = n /\ \A j \in 1..(i - 1) : names[j] # n

\* for k in range(planes): vals[k*npt:(k+1)*npt] = np.multiply(vals_in[:], f[k])
fill_blocks(vals_in, npt, planes, factor) ==
    [p \in 1..(planes * npt) |->
        np_multiply(vals_in[((p - 1) % npt) + 1],
                    factor, IF factor = "id" THEN 0 ELSE (p - 1) \div npt)]

\* Lines 477-487 for one variable v: copy it into every plane, then write its
\* vector components.
revolve_variable(vals, v, out_names, vmap, npt, planes) ==
    LET vin == zin_values(v, npt)
        copied == [vals EXCEPT ![VarIndex(out_names, v)] =
                      fill_blocks(vin, npt, planes, "id")]
    IN  IF v \notin Keys(vmap) THEN copied
        ELSE LET vy == Get(vmap, v)[1]
                 vz == Get(vmap, v)[2]
                 with_y == [copied EXCEPT ![VarIndex(out_names, vy)] =
                               fill_blocks(vin, npt, planes, "cos")]
             IN  [with_y EXCEPT ![VarIndex(out_names, vz)] =
                     fill_blocks(vin, npt, planes, "sin")]

\* Lines 476-487: for v in vars_in
RECURSIVE revolve_variables(_, _, _, _, _, _)
revolve_variables(vals, rest, out_names, vmap, npt, planes) ==
    IF rest = <<>> THEN vals
    ELSE revolve_variables(revolve_variable(vals, Head(rest), out_names, vmap, npt, planes),
                           Tail(rest), out_names, vmap, npt, planes)

\* Lines 469-487 for one input zone: the asserts, the new zone, its values.  A
\* block written past the end of the new zone's arrays raises.
revolve_zone(zin, names, out_names, vmap, planes) ==
    LET shape == zone_shape(zin, planes)
        npt == Prod(zin.dimensions)
        fresh == [j \in 1..Len(out_names) |-> [p \in 1..Prod(shape) |-> Zero]]
        zout == [name |-> zin.name, shape |-> shape,
                 dimensions |-> reported_dimensions(shape), values |-> fresh]
    IN  IF ~zin.ordered \/ rank(zin) >= 3 THEN [err |-> "AssertionError", zone |-> <<>>]
        ELSE IF Prod(shape) # planes * npt THEN [err |-> "IndexError", zone |-> <<zout>>]
        ELSE [err |-> "none",
              zone |-> <<[zout EXCEPT !.values =
                            revolve_variables(fresh, names, out_names, vmap, npt, planes)]>>]

\* ---- the inputs the transform is run on ----
VarNames == {"x", "y", "z", "q"}

UniqueLists(S, n) == { l \in SeqsUpTo(S, n) : l # <<>> /\ IsUnique(l) }

InputVarLists ==
    UniqueLists(VarNames, MaxVars) \cup { <<"x", "x">>, <<"x", "y", "x">> }

RadialArgs ==
    { RadialNone, RadialStr("y"), RadialStr("z"), RadialStr("r"),
      RadialDict(<<>>),
      RadialDict(<<<<"y", <<"y", "z">>>>>>),
      RadialDict(<<<<"y", <<"x", "w">>>>>>) }

VectorArgs ==
    { VectorNone, VectorList(<<"q">>), VectorList(<<"y">>),
      VectorDict(<<<<"q", <<"qy", "qz">>>>>>),
      VectorDict(<<<<"x", <<"q", "xs">>>>>>),
      VectorDict(<<<<"q", <<"x", "q">>>>>>),
      VectorDict(<<<<"q", <<"c", "c">>>>>>),
      VectorDict(<<<<"x", <<"c", "s">>>>, <<"q", <<"c", "t">>>>>>),
      VectorDict(<<<<"w", <<"wy", "wz">>>>>>) }

OrderedZone(n, dims) == [name |-> n, ordered |-> TRUE, dimensions |-> dims]
FEZone(n) == [name |-> n, ordered |-> FALSE, dimensions |-> <<3, 1, 1>>]

InputZoneLists ==
    { <<OrderedZone("body", <<2, 1, 1>>)>>,
      <<OrderedZone("body", <<1, 1, 1>>)>>,
      <<OrderedZone("body", <<2, 2, 1>>)>>,
      <<OrderedZone("body", <<1, 2, 1>>)>>,
      <<OrderedZone("body", <<2, 2, 2>>)>>,
      <<OrderedZone("body", <<3, 1, 1>>), OrderedZone("wake", <<2, 1, 1>>)>>,
      <<OrderedZone("body", <<2, 1, 1>>), FEZone("wake")>> }

\* The acceptance test: axi_sphere_surf.plt revolved with -n 25 -r v1
\* -v v2:v2y,v2z -v q2
TestVars == <<"x", "y", "q1", "q2", "v1", "v2">>
TestArgs ==
    [radial_coord |-> RadialStr("v1"),
     vector_vars |-> VectorDict(<<<<"v2", <<"v2y", "v2z">>>>,
                                  <<"q2", <<"q2_cos", "q2_sin">>>>>>),
     planes |-> 25]
TestDataset == [vars |-> TestVars, zones |-> <<OrderedZone("sphere", <<11, 1, 1>>)>>]

SelectIdle ==
    /\ catalog = <<>>
    /\ lib_empty = "all"
    /\ patterns = NoPatterns
    /\ result = [fn |-> "none", err |-> "none", value |-> <<>>]

InitRevolve ==
    /\ SelectIdle
    /\ DiffIdle
    /\ ApiIdle
    /\ \/ /\ rv_args \in [radial_coord : RadialArgs, vector_vars : VectorArgs,
                          planes : 1..MaxPlanes]
          /\ datafile_in \in [vars : InputVarLists, zones : InputZoneLists]
       \/ /\ rv_args = TestArgs
          /\ datafile_in = TestDataset
    /\ rv_pc = "load"
    /\ vars_in = <<>>
    /\ vector_vars = <<>>
    /\ data_out = EmptyDataset
    /\ rv_err = "none"
    /\ datafile_out = NotWritten

\* Lines 412-450: normalise vector_vars, load the input, check the arguments.
LoadAndCheck ==
    /\ rv_pc = "load"
    /\ LET r == check_inputs(datafile_in.vars, rv_args.radial_coord, rv_args.vector_vars)
       IN  /\ vars_in' = datafile_in.vars
           /\ rv_err' = r.err
           /\ vector_vars' = r.vector_vars
           /\ rv_pc' = IF r.err = "none" THEN "build" ELSE "failed"
    /\ UNCHANGED <<rv_args, datafile_in, data_out, datafile_out>>
    /\ UNCHANGED selVars
    /\ UNCHANGED dfVars
    /\ UNCHANGED apiVars

\* Lines 452-461: create data_out and its variables.
BuildVariables ==
    /\ rv_pc = "build"
    /\ data_out' = [vars |-> add_variables(vars_in, vars_in, vector_vars), zones |-> <<>>]
    /\ rv_pc' = "zones"
    /\ UNCHANGED <<rv_args, datafile_in, vars_in, vector_vars, rv_err, datafile_out>>
    /\ UNCHANGED selVars
    /\ UNCHANGED dfVars
    /\ UNCHANGED apiVars

\* Lines 469-487: the next input zone is revolved into a new zone of data_out.
RevolveZone ==
    /\ rv_pc = "zones"
    /\ Len(data_out.zones) < Len(datafile_in.zones)
    /\ LET zin == datafile_in.zones[Len(data_out.zones) + 1]
           r == revolve_zone(zin, vars_in, data_out.vars, vector_vars, rv_args.planes)
       IN  /\ data_out' = [data_out EXCEPT !.zones = @ \o r.zone]
           /\ rv_err' = r.err
           /\ rv_pc' = IF r.err = "none" THEN "zones" ELSE "failed"
    /\ UNCHANGED <<rv_args, datafile_in, vars_in, vector_vars, datafile_out>>
    /\ UNCHANGED selVars
    /\ UNCHANGED dfVars
    /\ UNCHANGED apiVars

\* Line 490: write_dataset(datafile_out, data_out)
WriteOutput ==
    /\ rv_pc = "zones"
    /\ Len(data_out.zones) = Len(datafile_in.zones)
    /\ datafile_out' = [vars |-> data_out.vars, zones |-> data_out.zones, written |-> TRUE]
    /\ rv_pc' = "done"
    /\ UNCHANGED <<rv_args, datafile_in, vars_in, vector_vars, data_out, rv_err>>
    /\ UNCHANGED selVars
    /\ UNCHANGED dfVars
    /\ UNCHANGED apiVars

NextRevolve ==
    \/ LoadAndCheck
    \/ BuildVariables
    \/ RevolveZone
    \/ WriteOutput

SpecRevolve == InitRevolve /\ [][NextRevolve]_vars

\* ------------------------------------------------------------- revolve claims
RevolveDone == rv_pc = "done" /\ datafile_out.written

\* The components of an input variable that are no input variables themselves.
ComponentsAfter(v) ==
    IF v \notin Keys(vector_vars) THEN <<>>
    ELSE (IF Get(vector_vars, v)[1] \in Range(vars_in) THEN <<>>
          ELSE <<Get(vector_vars, v)[1]>>)
         \o (IF Get(vector_vars, v)[2] \in Range(vars_in) THEN <<>>
             ELSE <<Get(vector_vars, v)[2]>>)

\* The input variables up to the n-th, each followed by its new components.
RECURSIVE ExpectedVariables(_)
ExpectedVariables(n) ==
    IF n = 0 THEN <<>>
    ELSE ExpectedVariables(n - 1) \o <<vars_in[n]>> \o ComponentsAfter(vars_in[n])

\* C1: the variable list of the written dataset is the input's variable list in
\* its order, each vector-mapped source variable followed immediately by those of
\* its (cos, sin) components that are no input variables; a component that is an
\* input variable is not added again.  The acceptance test's input gives
\* [x, y, q1, q2, q2_cos, q2_sin, v1, z, v2, v2y, v2z].
C1_OutputVariableOrder ==
    RevolveDone =>
        /\ datafile_out.vars = ExpectedVariables(Len(vars_in))
        /\ \A n \in Range(vars_in) :
             Cardinality({ i \in 1..Len(datafile_out.vars) : datafile_out.vars[i] = n }) = 1
        /\ datafile_in.vars = TestVars /\ rv_args = TestArgs =>
             datafile_out.vars = <<"x", "y", "q1", "q2", "q2_cos", "q2_sin",
                                   "v1", "z", "v2", "v2y", "v2z">>

\* C1 witness: the acceptance test's call has written its eleven variables.
C1_Witness ==
    /\ RevolveDone
    /\ rv_args = TestArgs
    /\ datafile_out.vars = <<"x", "y", "q1", "q2", "q2_cos", "q2_sin",
                             "v1", "z", "v2", "v2y", "v2z">>

\* C2: every input zone (of rank 1 or 2, or of a single point) that has been
\* revolved has one output zone of the same name, whose shape is the first rank
\* axes of the input zone followed by the number of planes; the 11-point zone of
\* the acceptance test, revolved with 25 planes, is reported as (11, 25, 1).
C2_ZoneShape ==
    /\ Len(data_out.zones) <= Len(datafile_in.zones)
    /\ RevolveDone => Len(datafile_out.zones) = Len(datafile_in.zones)
    /\ \A i \in 1..Len(data_out.zones) :
         LET zin == datafile_in.zones[i]
             zout == data_out.zones[i]
         IN  /\ zout.name = zin.name
             /\ rank(zin) < 3
             /\ Len(zout.shape) = rank(zin) + 1
             /\ zout.shape[rank(zin) + 1] = rv_args.planes
             /\ \A a \in 1..rank(zin) : zout.shape[a] = zin.dimensions[a]
             /\ \A a \in 1..3 :
                  zout.dimensions[a] = IF a <= rank(zin) + 1 THEN zout.shape[a] ELSE 1
             /\ (zin.dimensions = <<11, 1, 1>> /\ rv_args.planes = 25)
                    => zout.dimensions = <<11, 25, 1>>

\* C2 witness: a rank-2 zone has been revolved into a rank-3 zone and written.
C2_Witness ==
    /\ RevolveDone
    /\ rv_args.planes = 2
    /\ datafile_in.zones[1].dimensions = <<2, 2, 1>>
    /\ datafile_out.zones[1].dimensions = <<2, 2, 2>>

\* C3 as stated: a zone of dimensions (M, 1) revolved with N planes becomes a
\* zone of dimensions (M, 1, N).
C3_Original ==
    \A i \in 1..Len(data_out.zones) :
        LET zin == datafile_in.zones[i]
        IN  (zin.dimensions[2] = 1 /\ zin.dimensions[3] = 1)
                => data_out.zones[i].dimensions
                     = <<zin.dimensions[1], 1, rv_args.planes>>

\* C3 as amended: a zone of dimensions (M, 1) with M > 1, revolved with N planes,
\* becomes a zone of dimensions (M, N, 1): the planes are the second axis.
C3_PlanesAreSecondAxis ==
    \A i \in 1..Len(data_out.zones) :
        LET zin == datafile_in.zones[i]
        IN  (zin.dimensions[1] > 1 /\ zin.dimensions[2] = 1 /\ zin.dimensions[3] = 1)
                => data_out.zones[i].dimensions
                     = <<zin.dimensions[1], rv_args.planes, 1>>

\* C3 witness: a written zone that came from an (M, 1) zone, M > 1, with N > 1.
C3_Witness ==
    /\ RevolveDone
    /\ rv_args.planes > 1
    /\ datafile_in.zones[1].dimensions = <<2, 1, 1>>
    /\ datafile_out.zones[1].dimensions = <<2, rv_args.planes, 1>>

\* The values of a written variable in a written zone.
WrittenValues(i, name) == datafile_out.zones[i].values[VarIndex(datafile_out.vars, name)]

\* Block k of the named variable is the source's input values times the factor.
BlockIs(i, name, source, factor, k) ==
    LET npt == Prod(datafile_in.zones[i].dimensions)
    IN  \A p \in 1..npt :
            WrittenValues(i, name)[k * npt + p]
                = np_multiply(InputValue(source, p), factor, k)

\* C4 as stated: after the call, in every zone and for every mapping source ->
\* (cos-name, sin-name), block k of the cos-component is the source's input
\* values times cos(theta_k) and block k of the sin-component is the source's
\* input values times sin(theta_k), for a new component and for a component that
\* is an input variable wherever it stands in the variable order.
C4_Original ==
    RevolveDone =>
        \A i \in 1..Len(datafile_out.zones) :
            \A v \in Keys(vector_vars) :
                \A k \in 0..(rv_args.planes - 1) :
                    /\ BlockIs(i, Get(vector_vars, v)[1], v, "cos", k)
                    /\ BlockIs(i, Get(vector_vars, v)[2], v, "sin", k)

\* `radial_coord` was omitted or given as a bare name; r is the name it stands for.
RadialIsDefault ==
    radial_is_omitted(rv_args.radial_coord) \/ rv_args.radial_coord.kind = "str"
RadialName ==
    IF rv_args.radial_coord.kind = "str" THEN rv_args.radial_coord.name
    ELSE datafile_in.vars[2]

\* C5 as stated: with radial_coord omitted or a bare name r, the written r is
\* r*cos(theta) and a new variable z is r*sin(theta); the call fails and writes
\* nothing if the input has a variable z; with radial_coord a name mapping, an
\* input variable z does not make the call fail.
C5_Original ==
    /\ (RadialIsDefault /\ RevolveDone) =>
          /\ "z" \in Range(datafile_out.vars)
          /\ "z" \notin Range(datafile_in.vars)
          /\ \A i \in 1..Len(datafile_out.zones) :
               \A k \in 0..(rv_args.planes - 1) :
                   /\ BlockIs(i, RadialName, RadialName, "cos", k)
                   /\ BlockIs(i, "z", RadialName, "sin", k)
    /\ (RadialIsDefault /\ "z" \in Range(datafile_in.vars) /\ rv_pc # "load") =>
          rv_pc = "failed" /\ ~datafile_out.written
    /\ (~RadialIsDefault /\ rv_pc \notin {"load", "idle"}
          /\ IsUnique(datafile_in.vars)
          /\ Keys(dict_merge(rv_args.radial_coord.map,
                             normalize_vector_vars(rv_args.vector_vars)))
               \subseteq Range(datafile_in.vars)) =>
          rv_pc # "failed" \/ data_out.vars # <<>>

\* ========================================================= difference_datasets
\* Largest point count of a zone of the two datasets.
MaxPoints == 3
\* Largest nskip the call is given (the datasets have 3 or 4 variables).
MaxSkip == 4

\* A value of a dataset: a number, or not-a-number.
Num(n) == <<"num", n>>
NaN == <<"nan", 0>>

\* np.subtract(a, b) on two value sequences: element-wise, a one-element operand
\* being broadcast; two lengths that differ otherwise raise ValueError.
np_subtract(a, b) ==
    IF Len(a) = Len(b)
    THEN [err |-> "none", value |-> [p \in 1..Len(a) |-> Num(a[p][2] - b[p][2])]]
    ELSE IF Len(b) = 1
    THEN [err |-> "none", value |-> [p \in 1..Len(a) |-> Num(a[p][2] - b[1][2])]]
    ELSE IF Len(a) = 1
    THEN [err |-> "none", value |-> [p \in 1..Len(b) |-> Num(a[1][2] - b[p][2])]]
    ELSE [err |-> "ValueError", value |-> <<>>]

\* [math.nan] * len(delta.values(znew.index))
nan_fill(n) == [p \in 1..n |-> NaN]

\* Lines 225-235 for one zone pair: the subtraction assigned to the delta's
\* values, or NaN when that raised.  Assigning more values than the zone holds
\* (a one-point new zone, the old one broadcast over it) raises as well.
zone_delta_unguarded(a, b) ==
    LET r == np_subtract(a, b)
    IN  IF r.err = "none" /\ Len(r.value) = Len(a) THEN r.value
        ELSE [p \in 1..Len(a) |-> Num(0)]

zone_delta(a, b) ==
    LET r == np_subtract(a, b)
    IN  IF r.err = "none" /\ Len(r.value) = Len(a) THEN r.value
        ELSE nan_fill(Len(a))

\* "delta_" + vnew.name
DeltaPrefix == <<"d", "e", "l", "t", "a", "_">>
delta_name(name) == DeltaPrefix \o name

\* data_new.add_variable(name): a new last variable, zero in every zone
add_variable(ds, name) ==
    [ds EXCEPT !.vars = Append(@, name),
               !.values = Append(@, [j \in 1..Len(ds.zones) |->
                                        [p \in 1..ds.zones[j].npt |-> Num(0)]])]

\* vnew.values(znew.index)[:]
values_of(ds, v, z) == ds.values[v.index + 1][z.index + 1]

\* Lines 224-235: for znew, zold in zip(zone_new, zone_old), on the last variable
\* of ds (the delta just added).
RECURSIVE delta_zones(_, _, _, _, _, _)
delta_zones(ds, old, vnew, vold, zn, zo) ==
    IF zn = <<>> \/ zo = <<>> THEN ds
    ELSE delta_zones(
            [ds EXCEPT !.values[Len(ds.vars)][Head(zn).index + 1] =
                zone_delta(values_of(ds, vnew, Head(zn)),
                           values_of(old, vold, Head(zo)))],
            old, vnew, vold, Tail(zn), Tail(zo))

\* `if vnew.index < nskip or vold.index < nskip: continue`
skips_pair_new_only(vnew, vold, nskip) == vnew.index < nskip

skips_pair(vnew, vold, nskip) == vnew.index < nskip \/ vold.index < nskip

\* Lines 219-235 for one variable pair.
delta_pair(ds, old, vnew, vold, zn, zo, nskip) ==
    IF skips_pair(vnew, vold, nskip) THEN ds
    ELSE delta_zones(add_variable(ds, delta_name(vnew.name)), old, vnew, vold,
                     zn, zo)

\* Lines 180-214: select the variables and the zones of both datasets and compare
\* their numbers.  The count-mismatch messages format the undefined names
\* var_pattern and zone_pattern, which raises NameError.
select_and_pair(dnew, dold, vpats, zpats, mode) ==
    LET vn == get_variables(dnew.vars, vpats, mode)
        vo == get_variables(dold.vars, vpats, mode)
        zn == get_zones([j \in 1..Len(dnew.zones) |-> dnew.zones[j].name], zpats, mode)
        zo == get_zones([j \in 1..Len(dold.zones) |-> dold.zones[j].name], zpats, mode)
        failed(e) == [err |-> e, var_new |-> <<>>, var_old |-> <<>>,
                      zone_new |-> <<>>, zone_old |-> <<>>]
    IN  IF vn.err # "none" THEN failed(vn.err)
        ELSE IF vo.err # "none" THEN failed(vo.err)
        ELSE IF Len(vn.value) # Len(vo.value) THEN failed("NameError")
        ELSE IF zn.err # "none" THEN failed(zn.err)
        ELSE IF zo.err # "none" THEN failed(zo.err)
        ELSE IF Len(zn.value) # Len(zo.value) THEN failed("NameError")
        ELSE [err |-> "none", var_new |-> vn.value, var_old |-> vo.value,
              zone_new |-> zn.value, zone_old |-> zo.value]

\* range(a, b) of indices as a sequence
IndexRange(a, b) == [k \in 1..(IF b > a THEN b - a ELSE 0) |-> a + k - 1]

\* itertools.chain(range(nskip), range(initial_num_vars, data_new.num_variables))
vars_to_save(nskip, first_new, num_variables) ==
    IndexRange(0, nskip) \o IndexRange(first_new, num_variables)

\* ---- the datasets and arguments the call is run on ----
VarX == <<"x">>
VarY == <<"y">>
VarP == <<"p">>
VarPT == <<"p", "t">>
ZoneNames == << <<"a">>, <<"b">> >>

NewVarLists == { <<VarX, VarY, VarP, VarPT>>, <<VarX, VarP, VarY>> }
OldVarLists == { <<VarX, VarY, VarP>>, <<VarX, VarY, VarPT, VarP>>, <<VarP, VarX, VarPT>> }
VarPatternArgs ==
    { NoPatterns, ListPatterns(<< <<"p", "*">> >>), ListPatterns(<< <<"p", "*">>, <<"x">> >>),
      ListPatterns(<< <<"q">> >>) }
ZonePatternArgs == { NoPatterns, ListPatterns(<< <<"b">>, <<"a">> >>) }

\* The zones of a dataset: the k-th is named ZoneNames[k] and has npts[k] points.
PointLists == { l \in SeqsUpTo(1..MaxPoints, Len(ZoneNames)) : l # <<>> }
Zones(npts) == [j \in 1..Len(npts) |-> [name |-> ZoneNames[j], npt |-> npts[j]]]

\* The values a loaded dataset holds: seed tells the two files apart.
Dataset(names, npts, seed) ==
    [vars |-> names, zones |-> Zones(npts),
     values |-> [i \in 1..Len(names) |-> [j \in 1..Len(npts) |->
                   [p \in 1..npts[j] |-> Num(seed * (10 * i + 3 * j) + p * p * (seed + 1))]]]]

InitDiff ==
    /\ SelectIdle
    /\ RevolveIdle
    /\ ApiIdle
    /\ df_pc = "load"
    /\ df_args \in [var_patterns : VarPatternArgs, zone_patterns : ZonePatternArgs,
                    nskip : 0..MaxSkip]
    /\ \E vn \in NewVarLists, pn \in PointLists : data_new = Dataset(vn, pn, 7)
    /\ \E vo \in OldVarLists, po \in PointLists : data_old = Dataset(vo, po, 2)
    /\ var_new = <<>>
    /\ var_old = <<>>
    /\ zone_new = <<>>
    /\ zone_old = <<>>
    /\ initial_num_vars = 0
    /\ df_i = 0
    /\ df_err = "none"
    /\ df_out = NothingSaved

\* Lines 174-218: load both files, select and pair the variables and the zones.
LoadAndSelect ==
    /\ df_pc = "load"
    /\ LET r == select_and_pair(data_new, data_old, df_args.var_patterns,
                                df_args.zone_patterns, lib_empty)
       IN  /\ var_new' = r.var_new
           /\ var_old' = r.var_old
           /\ zone_new' = r.zone_new
           /\ zone_old' = r.zone_old
           /\ df_err' = r.err
           /\ df_pc' = IF r.err = "none" THEN "delta" ELSE "failed"
    /\ initial_num_vars' = Len(data_new.vars)
    /\ UNCHANGED <<df_args, data_new, data_old, df_i, df_out>>
    /\ UNCHANGED selVars
    /\ UNCHANGED rvVars
    /\ UNCHANGED apiVars

\* Lines 219-235: the next variable pair of the delta loop.
ComputeDelta ==
    /\ df_pc = "delta"
    /\ df_i < Len(var_new)
    /\ data_new' = delta_pair(data_new, data_old, var_new[df_i + 1], var_old[df_i + 1],
                            zone_new, zone_old, df_args.nskip)
    /\ df_i' = df_i + 1
    /\ UNCHANGED <<df_pc, df_args, data_old, var_new, var_old, zone_new, zone_old,
                   initial_num_vars, df_err, df_out>>
    /\ UNCHANGED selVars
    /\ UNCHANGED rvVars
    /\ UNCHANGED apiVars

\* Lines 237-239: write the first nskip variables and the deltas, for zone_new.
SaveResults ==
    /\ df_pc = "delta"
    /\ df_i = Len(var_new)
    /\ df_out' = [variables |-> vars_to_save(df_args.nskip, initial_num_vars,
                                             Len(data_new.vars)),
                  zones |-> zone_new, written |-> TRUE]
    /\ df_pc' = "done"
    /\ UNCHANGED <<df_args, data_new, data_old, var_new, var_old, zone_new, zone_old,
                   initial_num_vars, df_i, df_err>>
    /\ UNCHANGED selVars
    /\ UNCHANGED rvVars
    /\ UNCHANGED apiVars

NextDiff ==
    \/ LoadAndSelect
    \/ ComputeDelta
    \/ SaveResults

SpecDiff == InitDiff /\ [][NextDiff]_vars

\* ---------------------------------------------------------- difference claims
\* The variable pairs among the first n that the delta loop does not skip.
RECURSIVE DeltaPairs(_)
DeltaPairs(n) ==
    IF n = 0 THEN <<>>
    ELSE DeltaPairs(n - 1)
         \o (IF var_new[n].index >= df_args.nskip /\ var_old[n].index >= df_args.nskip
             THEN <<n>> ELSE <<>>)

DiffRunning == df_pc \in {"delta", "done"}

\* The values of the m-th delta variable in the new zone of the j-th zone pair,
\* and the input values of the pair it was computed from.
DeltaValues(m, j) == data_new.values[initial_num_vars + m][zone_new[j].index + 1]
NewValues(k, j) == data_new.values[var_new[k].index + 1][zone_new[j].index + 1]
OldValues(k, j) == data_old.values[var_old[k].index + 1][zone_old[j].index + 1]

IsDifference(m, k, j) ==
    /\ Len(DeltaValues(m, j)) = Len(NewValues(k, j))
    /\ \A p \in 1..Len(NewValues(k, j)) :
         DeltaValues(m, j)[p] = Num(NewValues(k, j)[p][2] - OldValues(k, j)[p][2])

IsAllNaN(m, j) == \A p \in 1..Len(DeltaValues(m, j)) : DeltaValues(m, j)[p] = NaN

\* C9: the delta loop has appended one variable to data_new for exactly those
\* positional variable pairs whose two indices are both >= nskip, in pair order;
\* it is named "delta_" + the new variable's name, and in every positional zone
\* pair (of equal point counts) its values are new - old, element by element.
C9_DeltaVariables ==
    DiffRunning =>
        LET pairs == DeltaPairs(df_i)
        IN  /\ Len(data_new.vars) = initial_num_vars + Len(pairs)
            /\ \A m \in 1..Len(pairs) :
                 /\ data_new.vars[initial_num_vars + m]
                      = <<"d", "e", "l", "t", "a", "_">> \o var_new[pairs[m]].name
                 /\ \A j \in 1..Len(zone_new) :
                      Len(NewValues(pairs[m], j)) = Len(OldValues(pairs[m], j))
                          => IsDifference(m, pairs[m], j)

\* C9 witness: the call is done; a pair was skipped for its old index alone, a
\* delta was computed for another pair over a zone pair of several points.
C9_Witness ==
    /\ df_pc = "done"
    /\ Len(DeltaPairs(df_i)) >= 1
    /\ \E k \in 1..Len(var_new) :
         var_new[k].index >= df_args.nskip /\ var_old[k].index < df_args.nskip
    /\ \E j \in 1..Len(zone_new) :
         /\ Len(NewValues(DeltaPairs(df_i)[1], j)) >= 2
         /\ IsDifference(1, DeltaPairs(df_i)[1], j)

PointCountsDiffer(k, j) == Len(NewValues(k, j)) # Len(OldValues(k, j))

\* C10 as stated: for every zone pair whose point counts differ the delta is all
\* NaN, no exception ends the call, every other delta is the element-wise
\* difference, and the output is written.
C10_Original ==
    /\ DiffRunning => df_err = "none"
    /\ df_pc = "done" =>
         /\ df_out.written
         /\ \A m \in 1..Len(DeltaPairs(df_i)) : \A j \in 1..Len(zone_new) :
              IF PointCountsDiffer(DeltaPairs(df_i)[m], j)
              THEN IsAllNaN(m, j)
              ELSE IsDifference(m, DeltaPairs(df_i)[m], j)

\* C10 as amended: the same for every zone pair whose point counts differ and of
\* which neither zone holds exactly one point.
C10_NaNOnShapeMismatch ==
    /\ DiffRunning => df_err = "none"
    /\ df_pc = "done" =>
         /\ df_out.written
         /\ \A m \in 1..Len(DeltaPairs(df_i)) : \A j \in 1..Len(zone_new) :
              LET k == DeltaPairs(df_i)[m]
              IN  /\ (PointCountsDiffer(k, j) /\ Len(NewValues(k, j)) # 1
                        /\ Len(OldValues(k, j)) # 1)
                         => (IsAllNaN(m, j) /\ Len(DeltaValues(m, j)) = Len(NewValues(k, j)))
                  /\ ~PointCountsDiffer(k, j) => IsDifference(m, k, j)

\* C10 witness: the call is done and has written; one zone pair of 2 and 3
\* points has an all-NaN delta, another zone pair has its differences.
C10_Witness ==
    /\ df_pc = "done" /\ df_out.written
    /\ Len(DeltaPairs(df_i)) >= 1
    /\ \E j1, j2 \in 1..Len(zone_new) :
         LET k == DeltaPairs(df_i)[1]
         IN  /\ Len(NewValues(k, j1)) = 2 /\ Len(OldValues(k, j1)) = 3
             /\ IsAllNaN(1, j1)
             /\ ~PointCountsDiffer(k, j2)
             /\ IsDifference(1, k, j2)

\* The variables of data_new as loaded, before the deltas were appended.
LoadedVars == SubSeq(data_new.vars, 1, initial_num_vars)

\* C11 as stated: what the call writes is, each listed once and each a variable
\* of data_new, exactly the loaded variables of index < nskip and the delta
\* variables the call created, for the selected zones of the new dataset; no
\* loaded variable of index >= nskip is written.
C11_Original ==
    df_pc = "done" =>
        LET saved == df_out.variables
        IN  /\ df_out.written
            /\ df_out.zones = zone_new
            /\ \A a, b \in 1..Len(saved) : a # b => saved[a] # saved[b]
            /\ \A a \in 1..Len(saved) : saved[a] \in 0..(Len(data_new.vars) - 1)
            /\ Range(saved) =
                 { i \in 0..(Len(data_new.vars) - 1) :
                     i < df_args.nskip \/ i >= initial_num_vars }
            /\ \A i \in 0..(initial_num_vars - 1) :
                 i >= df_args.nskip => i \notin Range(saved)

\* The same for the calls whose nskip does not exceed the number of loaded
\* variables: the cases in which the code does what C11 says.
C11_WithinLoadedVars ==
    (df_pc = "done" /\ df_args.nskip <= initial_num_vars) =>
        LET saved == df_out.variables
        IN  /\ df_out.written
            /\ df_out.zones = zone_new
            /\ \A a, b \in 1..Len(saved) : a # b => saved[a] # saved[b]
            /\ Range(saved) =
                 { i \in 0..(Len(data_new.vars) - 1) :
                     i < df_args.nskip \/ i >= initial_num_vars }

\* What the two selections of lines 181-182 and 199-200 return on the loaded
\* datasets.
SelectedNewVars == get_variables(LoadedVars, df_args.var_patterns, lib_empty)
SelectedOldVars == get_variables(data_old.vars, df_args.var_patterns, lib_empty)
SelectedNewZones ==
    get_zones([j \in 1..Len(data_new.zones) |-> data_new.zones[j].name],
              df_args.zone_patterns, lib_empty)
SelectedOldZones ==
    get_zones([j \in 1..Len(data_old.zones) |-> data_old.zones[j].name],
              df_args.zone_patterns, lib_empty)

VariableCountsDiffer ==
    /\ SelectedNewVars.err = "none" /\ SelectedOldVars.err = "none"
    /\ Len(SelectedNewVars.value) # Len(SelectedOldVars.value)

ZoneCountsDiffer ==
    /\ SelectedNewVars.err = "none" /\ SelectedOldVars.err = "none"
    /\ Len(SelectedNewVars.value) = Len(SelectedOldVars.value)
    /\ SelectedNewZones.err = "none" /\ SelectedOldZones.err = "none"
    /\ Len(SelectedNewZones.value) # Len(SelectedOldZones.value)

NamesMismatchOnly ==
    /\ SelectedNewVars.err = "none" /\ SelectedOldVars.err = "none"
    /\ Len(SelectedNewVars.value) = Len(SelectedOldVars.value)
    /\ SelectedNewZones.err = "none" /\ SelectedOldZones.err = "none"
    /\ Len(SelectedNewZones.value) = Len(SelectedOldZones.value)
    /\ \E k \in 1..Len(SelectedNewVars.value) :
         SelectedNewVars.value[k].name # SelectedOldVars.value[k].name

\* C12 as stated: once the selection step is over, the call has failed with
\* RuntimeError whenever the numbers of selected variables, or of selected zones,
\* differ between the two datasets; pairs that only differ in their names do not
\* end the call.
C12_Original ==
    df_pc # "load" =>
        /\ (VariableCountsDiffer \/ ZoneCountsDiffer)
              => (df_pc = "failed" /\ df_err = "RuntimeError")
        /\ NamesMismatchOnly => (df_pc # "failed" /\ df_err = "none")

\* What the code does in these cases: the call is ended, by the NameError of the
\* message's format arguments; a name mismatch alone does not end it.
C12_AbortsWithNameError ==
    df_pc # "load" =>
        /\ (VariableCountsDiffer \/ ZoneCountsDiffer)
              => (df_pc = "failed" /\ df_err = "NameError")
        /\ NamesMismatchOnly => (df_pc # "failed" /\ df_err = "none")

\* The call has passed the checks of lines 424-450 and built data_out's variables.
ChecksPassed == rv_pc \in {"zones", "write", "done"}

\* C15 as stated: whenever the call has passed its precondition checks, the
\* variable names of the output dataset are pairwise distinct, whatever the
\* vector mapping: also when two sources share a component name, or when the
\* cos-name and the sin-name of a source are the same.
C15_Original == ChecksPassed => IsUnique(data_out.vars)

\* The component names the merged mapping adds, one entry per (source, slot).
AddedComponents ==
    { <<v, c>> \in Keys(vector_vars) \X {1, 2} :
        Get(vector_vars, v)[c] \notin Range(vars_in) }

\* What the code does: the names are distinct exactly when no two (source, slot)
\* entries of the mapping add the same new name.
C15_DistinctUnlessSharedComponent ==
    ChecksPassed =>
        (IsUnique(data_out.vars) <=>
            \A a, b \in AddedComponents :
                Get(vector_vars, a[1])[a[2]] = Get(vector_vars, b[1])[b[2]] => a = b)

\* ================================================== the API operations' frames
\* How many operations are called one after the other.
MaxCalls == 2

ApiOperations ==
    { "compute_statistics", "difference_datasets", "extract", "interpolate_dataset",
      "rename_variables", "rename_zones", "revolve_dataset" }

\* The number of temp_frame() contexts the operation's with statement enters.
num_contexts(op) ==
    IF op \in {"difference_datasets", "revolve_dataset"} THEN 2 ELSE 1

\* temp_frame() up to its yield: page.add_frame().  The frames are numbered in
\* the order of their creation.
add_frame(pg, made) == pg \cup {made + 1}

\* temp_frame() when its with block is left.  On a normal exit the generator
\* goes on after the yield and deletes the frame.  An exception of the block is
\* raised at the yield, which no try statement encloses: it leaves the generator
\* and page.delete_frame(frame) is not run.
temp_frame_exit(pg, frame, exc) == IF exc = "none" THEN pg \ {frame} ELSE pg

\* ---- compute_statistics ----
\* The names bound in compute_statistics when line 138 is run, and the names
\* the module binds.
StatisticsLocals ==
    { "datafile_in", "variable_patterns", "zone_patterns", "tp", "tpc", "frame",
      "dataset" }
ModuleNames ==
    { "collections", "itertools", "logging", "math", "np", "os", "sys", "tempfile",
      "contextmanager", "SourceFileLoader", "mean", "LOG", "get_variables",
      "get_zones", "rescale_frame", "set_linemap_yvariable", "set_contour_variable",
      "temp_frame", "write_dataset", "compute_statistics", "difference_datasets",
      "export_pages", "extract", "interpolate_dataset", "rename_variables",
      "rename_zones", "revolve_dataset", "slice_surfaces" }

\* data.max(), data.min() and mean(data[:]) of a value sequence; the mean is kept
\* as the fraction sum / count.
data_max(data) == CHOOSE m \in { data[p][2] : p \in 1..Len(data) } :
                      \A p \in 1..Len(data) : data[p][2] <= m
data_min(data) == CHOOSE m \in { data[p][2] : p \in 1..Len(data) } :
                      \A p \in 1..Len(data) : m <= data[p][2]
RECURSIVE data_sum(_)
data_sum(data) == IF data = <<>> THEN 0 ELSE Head(data)[2] + data_sum(Tail(data))
mean(data) == [num |-> data_sum(data), den |-> Len(data)]

\* stats_tuple(zone.name, data.max(), data.min(), mean(data[:]))
stats_tuple(name, data) ==
    [name |-> name, max |-> data_max(data), min |-> data_min(data), mean |-> mean(data)]

\* Lines 147-150: the statistics of one variable, zone by zone.
zone_stats(dataset, var, zones) ==
    [j \in 1..Len(zones) |->
        stats_tuple(zones[j].name, dataset.values[var.index + 1][zones[j].index + 1])]

\* Lines 144-151: var_stats[var.name] = zone_stats, variable by variable.
RECURSIVE var_stats(_, _, _)
var_stats(dataset, variables, zones) ==
    IF variables = <<>> THEN <<>>
    ELSE LET last == variables[Len(variables)]
         IN  Put(var_stats(dataset, SubSeq(variables, 1, Len(variables) - 1), zones),
                 last.name, zone_stats(dataset, last, zones))

\* Lines 131-151, the with block of compute_statistics.  The selections are
\* made on the name ds, which neither the function nor the module binds: the
\* lookup raises NameError.
statistics_body(input, mode) ==
    LET env == [n \in StatisticsLocals |-> IF n = "dataset" THEN input.dataset ELSE <<>>]
        bound(n) == n \in DOMAIN env \/ n \in ModuleNames
        failed(e) == [err |-> e, value |-> <<>>]
    IN  IF input.fails = "load" THEN failed("load failure")
        ELSE IF ~bound("ds") THEN failed("NameError")
        ELSE LET variables == get_variables(env["ds"].vars, input.variable_patterns, mode)
                 zones == get_zones([j \in 1..Len(env["ds"].zones) |->
                                        env["ds"].zones[j].name],
                                    input.zone_patterns, mode)
             IN  IF variables.err # "none" THEN failed(variables.err)
                 ELSE IF zones.err # "none" THEN failed(zones.err)
                 ELSE [err |-> "none",
                       value |-> var_stats(env["dataset"], variables.value, zones.value)]

\* ---- the other operations: the step of the with block that raises ----
\* "load": tp.data.load_tecplot fails; "select": get_variables / get_zones find
\* no match; "count": the numbers of selected entities differ; "precondition":
\* an assert of revolve_dataset fails.
BodyFailures(op) ==
    CASE op = "difference_datasets" -> {"none", "load", "select", "count"}
      [] op = "extract" -> {"none", "load", "select"}
      [] op = "revolve_dataset" -> {"none", "load", "precondition"}
      [] OTHER -> {"none", "load"}

body_exception(fails) ==
    CASE fails = "none" -> "none"
      [] fails = "load" -> "load failure"
      [] fails = "count" -> "NameError"
      [] OTHER -> "AssertionError"

\* ---- the inputs ----
OneTwoThree ==
    [vars |-> <<VarP>>, zones |-> Zones(<<3>>),
     values |-> << << <<Num(1), Num(2), Num(3)>> >> >>]

StatisticsDatasets == { OneTwoThree, Dataset(<<VarX, VarP>>, <<2, 3>>, 2) }

StatisticsInputs ==
    [dataset : StatisticsDatasets, variable_patterns : VarPatternArgs,
     zone_patterns : ZonePatternArgs, fails : {"none", "load"}]

ApiInputs(op) ==
    IF op = "compute_statistics" THEN StatisticsInputs
    ELSE { [NoInput EXCEPT !.fails = f] : f \in BodyFailures(op) }

InitApi ==
    /\ SelectIdle
    /\ RevolveIdle
    /\ DiffIdle
    /\ ApiIdle

\* The caller calls an operation.
CallOperation ==
    /\ api_pc = "idle"
    /\ api_calls < MaxCalls
    /\ \E op \in ApiOperations : \E input \in ApiInputs(op) :
         /\ api_op' = op
         /\ api_input' = input
    /\ page_before' = page
    /\ api_calls' = api_calls + 1
    /\ api_exc' = "none"
    /\ api_result' = NoResult
    /\ api_pc' = "enter"
    /\ UNCHANGED <<page, frames_made, frames_held>>
    /\ UNCHANGED selVars
    /\ UNCHANGED rvVars
    /\ UNCHANGED dfVars

\* `with temp_frame() as frame ...`: the next context of the with statement is
\* entered.
EnterTempFrame ==
    /\ api_pc = "enter"
    /\ page' = add_frame(page, frames_made)
    /\ frames_held' = Append(frames_held, frames_made + 1)
    /\ frames_made' = frames_made + 1
    /\ api_pc' = IF Len(frames_held) + 1 = num_contexts(api_op) THEN "body" ELSE "enter"
    /\ UNCHANGED <<page_before, api_op, api_input, api_exc, api_result, api_calls>>
    /\ UNCHANGED selVars
    /\ UNCHANGED rvVars
    /\ UNCHANGED dfVars

\* The with block of compute_statistics (lines 129-151).
StatisticsBody ==
    /\ api_pc = "body"
    /\ api_op = "compute_statistics"
    /\ LET r == statistics_body(api_input, lib_empty)
       IN  /\ api_exc' = r.err
           /\ api_result' = [op |-> api_op, err |-> r.err, value |-> r.value]
    /\ api_pc' = "exit"
    /\ UNCHANGED <<page, page_before, frames_made, api_op, api_input, frames_held,
                   api_calls>>
    /\ UNCHANGED selVars
    /\ UNCHANGED rvVars
    /\ UNCHANGED dfVars

\* The with block of rename_variables (lines 334-353): it first adds a frame of
\* its own to the active page, then loads, renames and writes.
RenameVariablesBody ==
    /\ api_pc = "body"
    /\ api_op = "rename_variables"
    /\ page' = add_frame(page, frames_made)
    /\ frames_made' = frames_made + 1
    /\ api_exc' = body_exception(api_input.fails)
    /\ api_result' = [op |-> api_op, err |-> body_exception(api_input.fails),
                      value |-> <<>>]
    /\ api_pc' = "exit"
    /\ UNCHANGED <<page_before, api_op, api_input, frames_held, api_calls>>
    /\ UNCHANGED selVars
    /\ UNCHANGED rvVars
    /\ UNCHANGED dfVars

\* The with block of difference_datasets, extract, interpolate_dataset,
\* rename_zones and revolve_dataset: it runs to its end or raises.
OperationBody ==
    /\ api_pc = "body"
    /\ api_op \notin {"compute_statistics", "rename_variables"}
    /\ api_exc' = body_exception(api_input.fails)
    /\ api_result' = [op |-> api_op, err |-> body_exception(api_input.fails),
                      value |-> <<>>]
    /\ api_pc' = "exit"
    /\ UNCHANGED <<page, page_before, frames_made, api_op, api_input, frames_held,
                   api_calls>>
    /\ UNCHANGED selVars
    /\ UNCHANGED rvVars
    /\ UNCHANGED dfVars

\* The with statement leaves its innermost context that is still entered.
ExitTempFrame ==
    /\ api_pc = "exit"
    /\ frames_held # <<>>
    /\ page' = temp_frame_exit(page, frames_held[Len(frames_held)], api_exc)
    /\ frames_held' = SubSeq(frames_held, 1, Len(frames_held) - 1)
    /\ UNCHANGED <<page_before, frames_made, api_pc, api_op, api_input, api_exc,
                   api_result, api_calls>>
    /\ UNCHANGED selVars
    /\ UNCHANGED rvVars
    /\ UNCHANGED dfVars

\* Control returns to the caller, with the return value or the exception.
ReturnToCaller ==
    /\ api_pc = "exit"
    /\ frames_held = <<>>
    /\ api_pc' = "idle"
    /\ api_exc' = "none"
    /\ UNCHANGED <<page, page_before, frames_made, api_op, api_input, frames_held,
                   api_result, api_calls>>
    /\ UNCHANGED selVars
    /\ UNCHANGED rvVars
    /\ UNCHANGED dfVars

NextApi ==
    \/ CallOperation
    \/ EnterTempFrame
    \/ StatisticsBody
    \/ RenameVariablesBody
    \/ OperationBody
    \/ ExitTempFrame
    \/ ReturnToCaller

SpecApi == InitApi /\ [][NextApi]_vars

\* ------------------------------------------------------------------ API claims
StatisticsReturned == api_pc = "idle" /\ api_result.op = "compute_statistics"

\* What the selections of compute_statistics are to be made on: the loaded
\* dataset's variables and zones.
StatisticsVariables ==
    get_variables(api_input.dataset.vars, api_input.variable_patterns, lib_empty)
StatisticsZones ==
    get_zones([j \in 1..Len(api_input.dataset.zones) |-> api_input.dataset.zones[j].name],
              api_input.zone_patterns, lib_empty)
Selectable ==
    /\ api_input.fails = "none"
    /\ StatisticsVariables.err = "none"
    /\ StatisticsZones.err = "none"

\* (zone name, max, min, mean) of the values of variable v in zone z.
IsStatsOf(t, v, z) ==
    LET data == api_input.dataset.values[v.index + 1][z.index + 1]
        nums == { data[p][2] : p \in 1..Len(data) }
    IN  /\ t.name = z.name
        /\ t.max \in nums /\ \A n \in nums : n <= t.max
        /\ t.min \in nums /\ \A n \in nums : t.min <= n
        /\ t.mean.den = Len(data)
        /\ t.mean.num = data_sum(data)

\* C13 as stated: when compute_statistics has returned on a dataset that loads
\* and in which the patterns select something, its value maps each selected
\* variable's name to the list, in selection order of the zones, of that
\* variable's (zone name, max, min, mean); on the one-zone, one-variable dataset
\* of values [1, 2, 3] these are max 3, min 1, mean 2.
C13_Original ==
    (StatisticsReturned /\ Selectable) =>
        LET vs == StatisticsVariables.value
            zs == StatisticsZones.value
            stats == api_result.value
        IN  /\ api_result.err = "none"
            /\ Keys(stats) = { vs[i].name : i \in 1..Len(vs) }
            /\ \A i \in 1..Len(vs) :
                 /\ Len(Get(stats, vs[i].name)) = Len(zs)
                 /\ \A j \in 1..Len(zs) :
                      IsStatsOf(Get(stats, vs[i].name)[j], vs[i], zs[j])
            /\ api_input.dataset = OneTwoThree =>
                 LET t == Get(stats, VarP)[1]
                 IN  t.max = 3 /\ t.min = 1 /\ t.mean.num = 2 * t.mean.den

\* What the code does: every call of compute_statistics whose file loads ends
\* with NameError.
C13_AlwaysNameError ==
    (StatisticsReturned /\ api_input.fails = "none") => api_result.err = "NameError"

\* C14 as stated: when control has returned to the caller, on a normal return
\* as after an exception, the frames on the active page are the frames that were
\* on it when the operation was called.
C14_Original ==
    (api_pc = "idle" /\ api_calls > 0) => page = page_before

\* What the code does: the page is as before exactly after a normal return of an
\* operation other than rename_variables.
C14_RestoredOnlyOnPlainReturn ==
    (api_pc = "idle" /\ api_calls > 0) =>
        (page = page_before <=>
            (api_result.err = "none" /\ api_op # "rename_variables"))

====
